---- MODULE Spec2Model ----
(***************************************************************************)
(* Model of linkedin_api/client.py: the cookie cache (CredentialStore),    *)
(* the token validator, and the authenticate state machine of Client.     *)
(*                                                                         *)
(* Python values are encoded as follows.                                   *)
(*   Optional value   <<>> for None, <<v>> for a value v.                  *)
(*   str (cookie)     a sequence of characters; "q" stands for the double  *)
(*                    quote character.                                     *)
(*   Cookie           a record [name, value, expires, domain].             *)
(*   cookie jar       the sequence of its cookies in iteration order.      *)
(*   file system      a function from the paths that exist to contents.    *)
(***************************************************************************)
EXTENDS Integers, Sequences, FiniteSets, TLC

(* ---------------------------- bounds ----------------------------------- *)
MaxTime == 2
MaxJarLen == 2

(* ------------------------- data universe ------------------------------- *)
SessionCookieName == "JSESSIONID"

PASS == "PASS"

Names == {SessionCookieName, "lang"}

Values == {<< >>, <<"q", "a", "q">>, <<"b">>}

Domains == {"linkedin.com", "www.linkedin.com"}

Times == 0..MaxTime

Expiries == {<< >>} \cup {<<t>> : t \in 1..MaxTime}

Cookie == [name : Names, value : Values, expires : Expiries, domain : Domains]

(* A jar keeps one cookie per (domain, name) and iterates domain by domain. *)
IsJar(s) ==
    /\ \A i, j \in DOMAIN s :
          (s[i].domain = s[j].domain /\ s[i].name = s[j].name) => i = j
    /\ \A i, j, k \in DOMAIN s :
          (i < j /\ j < k /\ s[i].domain = s[k].domain) => s[j].domain = s[i].domain

Jars == {s \in UNION {[1..n -> Cookie] : n \in 0..MaxJarLen} : IsJar(s)}

EmptyJar == << >>

Usernames == {"alice", "bob"}

Passwords == {"hunter2"}

(* ------------------------- pure helpers -------------------------------- *)

(* str.strip('"'): drop every leading and every trailing quote character.  *)
RECURSIVE LStrip(_)
LStrip(v) ==
    IF v # << >> /\ Head(v) = "q" THEN LStrip(Tail(v)) ELSE v

RECURSIVE RStrip(_)
RStrip(v) ==
    IF v # << >> /\ v[Len(v)] = "q" THEN RStrip(SubSeq(v, 1, Len(v) - 1)) ELSE v

Strip(v) == RStrip(LStrip(v))

(* RequestsCookieJar.__getitem__(name): the value of the only cookie of    *)
(* that name; CookieConflictError when a second cookie has the name,       *)
(* KeyError when no cookie has it or the value found is empty.             *)
CookieJarGetItem(jar, name) ==
    LET hits == {i \in DOMAIN jar : jar[i].name = name}
    IN  IF Cardinality(hits) > 1
          THEN [exc |-> "CookieConflictError", value |-> << >>]
          ELSE IF hits = {} \/ (\E i \in hits : jar[i].value = << >>)
                 THEN [exc |-> "KeyError", value |-> << >>]
                 ELSE [exc |-> "none", value |-> jar[CHOOSE i \in hits : TRUE].value]

(* pickle.dump / pickle.load of a jar: the file holds one tuple per cookie *)
(* and then the STOP opcode; load reads up to the first STOP and leaves    *)
(* whatever follows it unread.                                             *)
PickleCookie(c) == <<c.name, c.value, c.expires, c.domain>>

UnpickleCookie(t) == [name |-> t[1], value |-> t[2], expires |-> t[3], domain |-> t[4]]

STOP == <<".">>

PickleDump(jar) == [i \in DOMAIN jar |-> PickleCookie(jar[i])] \o <<STOP>>

HasStop(bytes) == \E i \in DOMAIN bytes : bytes[i] = STOP

FirstStop(bytes) ==
    IF HasStop(bytes)
      THEN CHOOSE i \in DOMAIN bytes :
             bytes[i] = STOP /\ \A j \in DOMAIN bytes : j < i => bytes[j] # STOP
      ELSE Len(bytes) + 1

(* Variant: the expiry of every cookie is lost on the way back.            *)
PickleLoad_drops_expiry(bytes) ==
    [i \in DOMAIN SubSeq(bytes, 1, FirstStop(bytes) - 1) |->
       [UnpickleCookie(bytes[i]) EXCEPT !.expires = << >>]]

PickleLoad(bytes) ==
    [i \in DOMAIN SubSeq(bytes, 1, FirstStop(bytes) - 1) |-> UnpickleCookie(bytes[i])]

(* open(path, "wb") and the write of a buffer through it. The open empties *)
(* the file; the buffered writer hands the whole pickle to the file in one *)
(* write at the descriptor's own offset, which is 0, over what is there.   *)
Truncate(content) == << >>

(* Variant: the file is opened for appending.                              *)
WriteAt0_appends(content, data) == content \o data

WriteAt0(content, data) ==
    [i \in 1..(IF Len(content) > Len(data) THEN Len(content) ELSE Len(data)) |->
       IF i <= Len(data) THEN data[i] ELSE content[i]]

(* settings.COOKIE_PATH *)
COOKIE_PATH == "cookies/"

(* Client._get_cookiejar_file *)
get_cookiejar_file(username) == <<COOKIE_PATH, username, ".jr">>

(* Client._load_cookies_from_cache: (found, cookies). `if cookies` is the  *)
(* jar's length; a missing file is caught and answers (False, None).       *)
load_cookies_from_cache(files, username) ==
    LET cookiejar_file == get_cookiejar_file(username)
    IN  IF cookiejar_file \notin DOMAIN files
          THEN [found |-> FALSE, cookies |-> EmptyJar]
          ELSE LET cookies == PickleLoad(files[cookiejar_file])
               IN  IF Len(cookies) > 0
                     THEN [found |-> TRUE, cookies |-> cookies]
                     ELSE [found |-> FALSE, cookies |-> EmptyJar]

(* Variant: an expiry equal to the current time still counts as valid.    *)
RECURSIVE is_token_still_valid_inclusive(_, _)
is_token_still_valid_inclusive(cookies, now) ==
    IF cookies = << >>
      THEN FALSE
      ELSE LET cookie == Head(cookies)
           IN  IF cookie.name = SessionCookieName /\ cookie.value # << >>
                 THEN /\ cookie.expires # << >>
                      /\ cookie.expires[1] # 0
                      /\ cookie.expires[1] >= now
                 ELSE is_token_still_valid_inclusive(Tail(cookies), now)

(* Variant: a session token without expiry never expires.                  *)
RECURSIVE is_token_still_valid_no_expiry_ok(_, _)
is_token_still_valid_no_expiry_ok(cookies, now) ==
    IF cookies = << >>
      THEN FALSE
      ELSE LET cookie == Head(cookies)
           IN  IF cookie.name = SessionCookieName /\ cookie.value # << >>
                 THEN \/ cookie.expires = << >>
                      \/ cookie.expires[1] > now
                 ELSE is_token_still_valid_no_expiry_ok(Tail(cookies), now)

(* Variant: the break of line 119 is missing, later cookies are tried.     *)
RECURSIVE is_token_still_valid_no_break(_, _)
is_token_still_valid_no_break(cookies, now) ==
    IF cookies = << >>
      THEN FALSE
      ELSE LET cookie == Head(cookies)
           IN  \/ /\ cookie.name = SessionCookieName
                  /\ cookie.value # << >>
                  /\ cookie.expires # << >>
                  /\ cookie.expires[1] # 0
                  /\ cookie.expires[1] > now
               \/ is_token_still_valid_no_break(Tail(cookies), now)

(* Client._is_token_still_valid: the loop stops at the first cookie named  *)
(* JSESSIONID whose value is truthy.                                       *)
RECURSIVE is_token_still_valid(_, _)
is_token_still_valid(cookies, now) ==
    IF cookies = << >>
      THEN FALSE
      ELSE LET cookie == Head(cookies)
           IN  IF cookie.name = SessionCookieName /\ cookie.value # << >>
                 THEN /\ cookie.expires # << >>
                      /\ cookie.expires[1] # 0
                      /\ cookie.expires[1] > now
                 ELSE is_token_still_valid(Tail(cookies), now)

(* Variant: the file is written before the csrf-token header is derived.  *)
set_session_cookies_writes_first(cookiejar, username, headers, files) ==
    LET got == CookieJarGetItem(cookiejar, SessionCookieName)
        cookiejar_file == get_cookiejar_file(username)
    IN  [exc |-> got.exc,
         cookies |-> cookiejar,
         csrf |-> IF got.exc # "none" THEN headers ELSE <<Strip(got.value)>>,
         files |-> [p \in DOMAIN files \cup {cookiejar_file} |->
                      IF p = cookiejar_file THEN PickleDump(cookiejar) ELSE files[p]]]

(* Client._set_session_cookies: the jar is installed first, then the       *)
(* csrf-token header is derived, then the file is written; an exception of *)
(* the JSESSIONID lookup leaves the header and the file as they were.      *)
set_session_cookies(cookiejar, username, headers, files) ==
    LET got == CookieJarGetItem(cookiejar, SessionCookieName)
        cookiejar_file == get_cookiejar_file(username)
    IN  IF got.exc # "none"
          THEN [exc |-> got.exc, cookies |-> cookiejar, csrf |-> headers, files |-> files]
          ELSE [exc |-> "none",
                cookies |-> cookiejar,
                csrf |-> <<Strip(got.value)>>,
                files |-> [p \in DOMAIN files \cup {cookiejar_file} |->
                             IF p = cookiejar_file THEN PickleDump(cookiejar)
                                                   ELSE files[p]]]

(* ------------------- what the service may answer ----------------------- *)

SessionCookie(v, e, d) ==
    [name |-> SessionCookieName, value |-> v, expires |-> e, domain |-> d]

LangCookie ==
    [name |-> "lang", value |-> <<"b">>, expires |-> << >>, domain |-> "www.linkedin.com"]

(* The jars of res.cookies: no cookie; a cookie that is no session token; *)
(* a session token alone, quoted and long-lived, short-lived, without      *)
(* expiry, or with an empty value; a session token behind another cookie;  *)
(* two session tokens.                                                     *)
ServiceJars ==
    { EmptyJar,
      <<LangCookie>>,
      <<SessionCookie(<<"q", "a", "q">>, <<MaxTime>>, "www.linkedin.com")>>,
      <<SessionCookie(<<"b">>, <<1>>, "www.linkedin.com")>>,
      <<SessionCookie(<<"b">>, << >>, "www.linkedin.com")>>,
      <<SessionCookie(<< >>, <<MaxTime>>, "www.linkedin.com")>>,
      <<LangCookie, SessionCookie(<<"b">>, <<MaxTime>>, "www.linkedin.com")>>,
      <<SessionCookie(<<"b">>, <<1>>, "linkedin.com"),
        SessionCookie(<<"q", "a", "q">>, <<MaxTime>>, "www.linkedin.com")>> }

StatusCodes == {200, 401, 500}

ResultValues == {PASS, "CHALLENGE"}

(* res.json(): not JSON at all, JSON null, or an object over these keys.   *)
Bodies ==
    {[kind |-> "notjson", dict |-> << >>], [kind |-> "null", dict |-> << >>]}
      \cup {[kind |-> "dict", dict |-> d] :
              d \in {<< >>} \cup [{"login_result"} -> ResultValues]
                            \cup [{"challenge_url"} -> {"CHALLENGE"}]}

Responses == [status_code : StatusCodes, body : Bodies, cookies : ServiceJars]

(* Truthiness of the parsed body: None and {} are falsy. *)
Truthy(data) == data.kind = "dict" /\ DOMAIN data.dict # {}

(* Variant: the status is checked before the body.                         *)
check_response_status_first(res) ==
    IF res.body.kind = "notjson"
      THEN [kind |-> "ValueError", arg |-> << >>]
      ELSE LET data == res.body
           IN  IF res.status_code = 401
                 THEN [kind |-> "UnauthorizedException", arg |-> << >>]
                 ELSE IF res.status_code # 200
                   THEN [kind |-> "Exception", arg |-> << >>]
                   ELSE IF Truthy(data) /\ "login_result" \notin DOMAIN data.dict
                     THEN [kind |-> "KeyError", arg |-> << >>]
                     ELSE IF Truthy(data) /\ data.dict["login_result"] # PASS
                       THEN [kind |-> "ChallengeException",
                             arg |-> <<data.dict["login_result"]>>]
                       ELSE [kind |-> "none", arg |-> << >>]

(* Variant: the 401 test is missing, a 401 ends like any other non-200.    *)
check_response_no_401(res) ==
    IF res.body.kind = "notjson"
      THEN [kind |-> "ValueError", arg |-> << >>]
      ELSE LET data == res.body
           IN  IF Truthy(data) /\ "login_result" \notin DOMAIN data.dict
                 THEN [kind |-> "KeyError", arg |-> << >>]
                 ELSE IF Truthy(data) /\ data.dict["login_result"] # PASS
                   THEN [kind |-> "ChallengeException",
                         arg |-> <<data.dict["login_result"]>>]
                   ELSE IF res.status_code # 200
                     THEN [kind |-> "Exception", arg |-> << >>]
                     ELSE [kind |-> "none", arg |-> << >>]

(* Lines 155-164: the exception the response raises, "none" to go on.      *)
check_response(res) ==
    IF res.body.kind = "notjson"
      THEN [kind |-> "ValueError", arg |-> << >>]
      ELSE LET data == res.body
           IN  IF Truthy(data) /\ "login_result" \notin DOMAIN data.dict
                 THEN [kind |-> "KeyError", arg |-> << >>]
                 ELSE IF Truthy(data) /\ data.dict["login_result"] # PASS
                   THEN [kind |-> "ChallengeException",
                         arg |-> <<data.dict["login_result"]>>]
                   ELSE IF res.status_code = 401
                     THEN [kind |-> "UnauthorizedException", arg |-> << >>]
                     ELSE IF res.status_code # 200
                       THEN [kind |-> "Exception", arg |-> << >>]
                       ELSE [kind |-> "none", arg |-> << >>]

(* ----------------------------- state ----------------------------------- *)
VARIABLES
    use_cookie_cache,   \* Client._use_cookie_cache
    files,              \* the cookie directory: path -> pickled jar
    cookies,            \* Client.session.cookies
    csrf,               \* Client.session.headers["csrf-token"], optional
    now,                \* time.time()
    pc,                 \* "idle", "get" (GET in flight), "post" (POST in flight)
    username,           \* arguments of the running / last authenticate call
    password,
    outcome,            \* optional: how the last call ended
    gets,               \* GET requests issued by the running / last call
    posts,              \* POST requests issued by the running / last call
    cache_read,         \* the call opened the cache file of username
    cache_at_call,      \* optional: that file's content when the call began
    anon,               \* optional: the jar the GET of this call returned
    response,           \* optional: the response the POST of this call got
    saved,              \* per identity, optional: the jar last saved in this run
    io_error,           \* optional: the error open() raised when the call read the cache
    payload,            \* optional: the form data of the POST this call sent
    accepted,           \* identities whose cache file holds the jar of an accepted authentication
    saver_pc,           \* per saving process: "idle", "opened", "written", "closed"
    saver_jar,          \* per saving process: the jar it saves
    write_order,        \* the saving processes in the order of their writes
    close_order,        \* the saving processes in the order of their closes
    loaded              \* optional: what the last load since the file changed returned

vars == <<use_cookie_cache, files, cookies, csrf, now, pc, username, password,
          outcome, gets, posts, cache_read, cache_at_call, anon, response, saved,
          io_error,
          payload,
          accepted,
          saver_pc,
          saver_jar,
          write_order,
          close_order,
          loaded>>

(* Two processes that save a jar for the same identity.                     *)
Savers == {"A", "B"}

(* Files an earlier run of the program can have left behind.               *)
SavableJars == {jar \in ServiceJars : CookieJarGetItem(jar, SessionCookieName).exc = "none"}

FileSystems ==
    UNION {[{get_cookiejar_file(u) : u \in us} -> {PickleDump(jar) : jar \in SavableJars}] :
             us \in SUBSET Usernames}

FileOf(fs, u) ==
    IF get_cookiejar_file(u) \in DOMAIN fs THEN <<fs[get_cookiejar_file(u)]>> ELSE << >>

Init ==
    /\ use_cookie_cache \in BOOLEAN
    /\ files \in FileSystems
    /\ cookies = EmptyJar
    /\ csrf = << >>
    /\ now = 0
    /\ pc = "idle"
    /\ username \in Usernames
    /\ password \in Passwords
    /\ outcome = << >>
    /\ gets = 0
    /\ posts = 0
    /\ cache_read = FALSE
    /\ cache_at_call = << >>
    /\ anon = << >>
    /\ response = << >>
    /\ saved = [u \in Usernames |-> << >>]
    /\ io_error = << >>
    /\ payload = << >>
    /\ accepted = {u \in Usernames : get_cookiejar_file(u) \in DOMAIN files}
    /\ saver_pc = [p \in Savers |-> "idle"]
    /\ saver_jar = [p \in Savers |-> EmptyJar]
    /\ write_order = << >>
    /\ close_order = << >>
    /\ loaded = << >>

Return(kind, arg) == <<[kind |-> kind, arg |-> arg]>>

(* Variant: the configuration flag is read the wrong way round.           *)
cache_hit_flag_inverted(use_cache, fs, u, t) ==
    /\ ~use_cache
    /\ load_cookies_from_cache(fs, u).found
    /\ is_token_still_valid(load_cookies_from_cache(fs, u).cookies, t)

(* Client.authenticate, lines 125-129: the call returns from the cache.    *)
cache_hit(use_cache, fs, u, t) ==
    /\ use_cache
    /\ load_cookies_from_cache(fs, u).found
    /\ is_token_still_valid(load_cookies_from_cache(fs, u).cookies, t)

(* Variant: line 166 is missing, the response jar is never installed.     *)
finish_authentication_keeps_anonymous(res, u, jar, headers, fs) ==
    LET raised == check_response(res)
    IN  [outcome |-> IF raised.kind # "none" THEN Return(raised.kind, raised.arg)
                                             ELSE Return("return", << >>),
         cookies |-> jar, csrf |-> headers, files |-> fs]

(* _do_authentication_request, lines 155-166: what the POST's answer does  *)
(* to the client: the exception raised or the response jar installed.      *)
finish_authentication(res, u, jar, headers, fs) ==
    LET raised == check_response(res)
        set == set_session_cookies(res.cookies, u, headers, fs)
    IN  IF raised.kind # "none"
          THEN [outcome |-> Return(raised.kind, raised.arg),
                cookies |-> jar, csrf |-> headers, files |-> fs]
          ELSE [outcome |-> IF set.exc # "none" THEN Return(set.exc, << >>)
                                                ELSE Return("return", << >>),
                cookies |-> set.cookies, csrf |-> set.csrf, files |-> set.files]

(* What open() may raise besides FileNotFoundError.                        *)
ReadErrors == {"PermissionError"}

(* Variant: the handler of line 85 catches every exception.                *)
read_raises_none(use_cache, io) == FALSE

(* _load_cookies_from_cache, lines 78-86: the cache is read when reuse is  *)
(* enabled, and only FileNotFoundError is caught: any other error of       *)
(* open() leaves _load_cookies_from_cache and authenticate.                *)
read_raises(use_cache, io) == use_cache /\ io # "none"

(* Client.authenticate, up to its return or to the GET of                  *)
(* _request_session_cookies; io is what open() does in this call.          *)
Authenticate(u, p, io) ==
    /\ pc = "idle"
    /\ username' = u
    /\ password' = p
    /\ cache_at_call' = FileOf(files, u)
    /\ anon' = << >>
    /\ response' = << >>
    /\ cache_read' = use_cookie_cache
    /\ posts' = 0
    /\ payload' = << >>
    /\ io_error' = IF use_cookie_cache /\ io # "none" THEN <<io>> ELSE << >>
    /\ LET hit == cache_hit(use_cookie_cache, files, u, now)
       IN  IF read_raises(use_cookie_cache, io)
             THEN /\ pc' = "idle"
                  /\ outcome' = Return(io, << >>)
                  /\ gets' = 0
             ELSE IF hit
               THEN /\ pc' = "idle"
                    /\ outcome' = Return("return", << >>)
                    /\ gets' = 0
               ELSE /\ pc' = "get"
                    /\ outcome' = << >>
                    /\ gets' = 1
    /\ UNCHANGED <<use_cookie_cache, files, cookies, csrf, now, saved,
                   accepted,
                   saver_pc,
                   saver_jar,
                   write_order,
                   close_order,
                   loaded>>

(* Variant: the form data is written to the cache file with the jar.      *)
start_authentication_saves_payload(jar, u, p, headers, fs) ==
    LET set == set_session_cookies(jar, u, headers, fs)
    IN  IF set.exc # "none"
          THEN [exc |-> set.exc, cookies |-> set.cookies, csrf |-> set.csrf,
                files |-> set.files, payload |-> << >>]
          ELSE [exc |-> "none", cookies |-> set.cookies, csrf |-> set.csrf,
                files |-> [set.files EXCEPT ![get_cookiejar_file(u)] =
                             <<<<p, << >>, << >>, u>>>> \o @],
                payload |-> <<[session_key |-> u,
                               session_password |-> p,
                               JSESSIONID |-> CookieJarGetItem(jar, SessionCookieName).value]>>]

(* _do_authentication_request, lines 139-145: the anonymous jar is         *)
(* installed and saved, then the form data of the POST is built from the   *)
(* identity, the secret and the session token of the jar.                  *)
start_authentication(jar, u, p, headers, fs) ==
    LET set == set_session_cookies(jar, u, headers, fs)
    IN  [exc |-> set.exc, cookies |-> set.cookies, csrf |-> set.csrf, files |-> set.files,
         payload |-> IF set.exc # "none"
                       THEN << >>
                       ELSE <<[session_key |-> u,
                               session_password |-> p,
                               JSESSIONID |-> CookieJarGetItem(jar, SessionCookieName).value]>>]

(* _do_authentication_request from the GET's answer to the POST (lines     *)
(* 139-153): the anonymous jar is installed and saved, then posted.        *)
GetResponse(jar) ==
    /\ pc = "get"
    /\ anon' = <<jar>>
    /\ LET set == start_authentication(jar, username, password, csrf, files)
       IN  /\ cookies' = set.cookies
           /\ payload' = set.payload
           /\ csrf' = set.csrf
           /\ files' = set.files
           /\ saved' = IF set.exc = "none" THEN [saved EXCEPT ![username] = <<jar>>]
                                           ELSE saved
           /\ accepted' = IF set.exc = "none" THEN accepted \ {username} ELSE accepted
           /\ IF set.exc # "none"
                THEN /\ pc' = "idle"
                     /\ outcome' = Return(set.exc, << >>)
                     /\ posts' = posts
                ELSE /\ pc' = "post"
                     /\ outcome' = outcome
                     /\ posts' = posts + 1
    /\ UNCHANGED <<use_cookie_cache, now, username, password, gets, cache_read,
                   cache_at_call, response,
                   io_error,
                   saver_pc,
                   saver_jar,
                   write_order,
                   close_order,
                   loaded>>

(* Variant: a failed GET is sent again.                                    *)
GetFails_retries ==
    /\ pc = "get"
    /\ gets < 3
    /\ gets' = gets + 1
    /\ UNCHANGED <<use_cookie_cache, files, cookies, csrf, now, username, password,
                   pc, outcome, posts, cache_read, cache_at_call, anon, response, saved,
                   io_error,
                   payload,
                   accepted,
                   saver_pc,
                   saver_jar,
                   write_order,
                   close_order,
                   loaded>>

(* requests.get raises (no connection, timeout): the exception leaves      *)
(* _request_session_cookies and authenticate, nothing has been set.        *)
GetFails ==
    /\ pc = "get"
    /\ pc' = "idle"
    /\ outcome' = Return("ConnectionError", << >>)
    /\ UNCHANGED <<use_cookie_cache, files, cookies, csrf, now, username, password,
                   gets, posts, cache_read, cache_at_call, anon, response, saved,
                   io_error,
                   payload,
                   accepted,
                   saver_pc,
                   saver_jar,
                   write_order,
                   close_order,
                   loaded>>

(* requests.post raises: the anonymous jar stays installed and saved.      *)
PostFails ==
    /\ pc = "post"
    /\ pc' = "idle"
    /\ outcome' = Return("ConnectionError", << >>)
    /\ UNCHANGED <<use_cookie_cache, files, cookies, csrf, now, username, password,
                   gets, posts, cache_read, cache_at_call, anon, response, saved,
                   io_error,
                   payload,
                   accepted,
                   saver_pc,
                   saver_jar,
                   write_order,
                   close_order,
                   loaded>>

(* The response as the client reads it: res.cookies is read on line 166    *)
(* only, after the checks of the body and of the status have passed.       *)
Received(res) ==
    IF check_response(res).kind = "none" THEN res ELSE [res EXCEPT !.cookies = EmptyJar]

(* _do_authentication_request from the POST's answer on (lines 155-166).   *)
PostResponse(res) ==
    /\ pc = "post"
    /\ response' = <<Received(res)>>
    /\ pc' = "idle"
    /\ LET fin == finish_authentication(res, username, cookies, csrf, files)
       IN  /\ outcome' = fin.outcome
           /\ cookies' = fin.cookies
           /\ csrf' = fin.csrf
           /\ files' = fin.files
           /\ saved' = IF fin.outcome = Return("return", << >>)
                         THEN [saved EXCEPT ![username] = <<res.cookies>>]
                         ELSE saved
           /\ accepted' = IF fin.outcome = Return("return", << >>)
                            THEN accepted \cup {username}
                            ELSE accepted
    /\ UNCHANGED <<use_cookie_cache, now, username, password, gets, posts, cache_read,
                   cache_at_call, anon,
                   io_error,
                   payload,
                   saver_pc,
                   saver_jar,
                   write_order,
                   close_order,
                   loaded>>

(* The clock advances. *)
Tick ==
    /\ now < MaxTime
    /\ now' = now + 1
    /\ UNCHANGED <<use_cookie_cache, files, cookies, csrf, pc, username, password,
                   outcome, gets, posts, cache_read, cache_at_call, anon, response, saved,
                   io_error,
                   payload,
                   accepted,
                   saver_pc,
                   saver_jar,
                   write_order,
                   close_order,
                   loaded>>

Next ==
    \/ \E u \in Usernames, p \in Passwords, io \in {"none"} \cup ReadErrors :
         Authenticate(u, p, io)
    \/ \E jar \in ServiceJars : GetResponse(jar)
    \/ \E res \in Responses : PostResponse(res)
    \/ GetFails
    \/ PostFails
    \/ Tick

Spec == Init /\ [][Next]_vars

(* --------------- the validator on its own (unit harness) --------------- *)
(* _is_token_still_valid applied to every jar of at most MaxJarLen cookies *)
(* at every time: cookies holds the jar passed, now the time of the call,  *)
(* outcome the value returned.                                             *)
NoFiles == [f \in {} |-> << >>]

InitValidator ==
    /\ cookies \in Jars
    /\ now \in Times
    /\ outcome = << >>
    /\ use_cookie_cache = TRUE
    /\ files = NoFiles
    /\ csrf = << >>
    /\ pc = "validator"
    /\ username = "alice"
    /\ password = "hunter2"
    /\ gets = 0
    /\ posts = 0
    /\ cache_read = FALSE
    /\ cache_at_call = << >>
    /\ anon = << >>
    /\ response = << >>
    /\ saved = [u \in Usernames |-> << >>]
    /\ io_error = << >>
    /\ payload = << >>
    /\ accepted = {}
    /\ saver_pc = [p \in Savers |-> "idle"]
    /\ saver_jar = [p \in Savers |-> EmptyJar]
    /\ write_order = << >>
    /\ close_order = << >>
    /\ loaded = << >>

IsTokenStillValid ==
    /\ pc = "validator"
    /\ outcome = << >>
    /\ outcome' = Return("return", <<is_token_still_valid(cookies, now)>>)
    /\ UNCHANGED <<use_cookie_cache, files, cookies, csrf, now, pc, username, password,
                   gets, posts, cache_read, cache_at_call, anon, response, saved,
                   io_error,
                   payload,
                   accepted,
                   saver_pc,
                   saver_jar,
                   write_order,
                   close_order,
                   loaded>>

NextValidator == IsTokenStillValid

SpecValidator == InitValidator /\ [][NextValidator]_vars

(* ------------- two processes saving for one identity -------------------- *)
(* Lines 105-106 of _set_session_cookies run by two processes on the file  *)
(* of one identity, step by step: the open, the write of the pickle, the   *)
(* close; and _load_cookies_from_cache run by a reader at any moment.      *)
InitRace ==
    /\ pc = "race"
    /\ username \in Usernames
    /\ files \in {fs \in FileSystems : DOMAIN fs \subseteq {get_cookiejar_file(username)}}
    /\ saver_jar \in [Savers -> SavableJars]
    /\ saver_pc = [p \in Savers |-> "idle"]
    /\ write_order = << >>
    /\ close_order = << >>
    /\ loaded = << >>
    /\ use_cookie_cache = TRUE
    /\ cookies = EmptyJar
    /\ csrf = << >>
    /\ now = 0
    /\ password = "hunter2"
    /\ outcome = << >>
    /\ gets = 0
    /\ posts = 0
    /\ cache_read = FALSE
    /\ cache_at_call = << >>
    /\ anon = << >>
    /\ response = << >>
    /\ saved = [u \in Usernames |-> << >>]
    /\ io_error = << >>
    /\ payload = << >>
    /\ accepted = {}

RaceFile == get_cookiejar_file(username)

SetFile(fs, path, content) ==
    [p \in DOMAIN fs \cup {path} |-> IF p = path THEN content ELSE fs[p]]

(* with open(self._get_cookiejar_file(username), "wb") as f *)
SaveOpen(p) ==
    /\ pc = "race"
    /\ saver_pc[p] = "idle"
    /\ saver_pc' = [saver_pc EXCEPT ![p] = "opened"]
    /\ files' = SetFile(files, RaceFile,
                        Truncate(IF RaceFile \in DOMAIN files THEN files[RaceFile] ELSE << >>))
    /\ loaded' = << >>
    /\ UNCHANGED <<use_cookie_cache, cookies, csrf, now, pc, username, password, outcome,
                   gets, posts, cache_read, cache_at_call, anon, response, saved,
                   io_error, payload, accepted, saver_jar, write_order, close_order>>

(* pickle.dump(cookiejar, f) *)
SaveWrite(p) ==
    /\ pc = "race"
    /\ saver_pc[p] = "opened"
    /\ saver_pc' = [saver_pc EXCEPT ![p] = "written"]
    /\ files' = SetFile(files, RaceFile, WriteAt0(files[RaceFile], PickleDump(saver_jar[p])))
    /\ write_order' = Append(write_order, p)
    /\ loaded' = << >>
    /\ UNCHANGED <<use_cookie_cache, cookies, csrf, now, pc, username, password, outcome,
                   gets, posts, cache_read, cache_at_call, anon, response, saved,
                   io_error, payload, accepted, saver_jar, close_order>>

(* the end of the with block *)
SaveClose(p) ==
    /\ pc = "race"
    /\ saver_pc[p] = "written"
    /\ saver_pc' = [saver_pc EXCEPT ![p] = "closed"]
    /\ close_order' = Append(close_order, p)
    /\ UNCHANGED <<use_cookie_cache, files, cookies, csrf, now, pc, username, password,
                   outcome, gets, posts, cache_read, cache_at_call, anon, response, saved,
                   io_error, payload, accepted, saver_jar, write_order, loaded>>

(* Client._load_cookies_from_cache by a reader: pickle.load raises         *)
(* EOFError on a file that ends before a STOP, and only FileNotFoundError  *)
(* is caught.                                                              *)
load_outcome(fs, u) ==
    IF get_cookiejar_file(u) \in DOMAIN fs /\ ~HasStop(fs[get_cookiejar_file(u)])
      THEN Return("EOFError", << >>)
      ELSE Return("return", <<load_cookies_from_cache(fs, u)>>)

LoadCookies ==
    /\ pc = "race"
    /\ loaded = << >>
    /\ loaded' = load_outcome(files, username)
    /\ UNCHANGED <<use_cookie_cache, files, cookies, csrf, now, pc, username, password,
                   outcome, gets, posts, cache_read, cache_at_call, anon, response, saved,
                   io_error, payload, accepted, saver_pc, saver_jar, write_order,
                   close_order>>

NextRace ==
    \/ \E p \in Savers : SaveOpen(p)
    \/ \E p \in Savers : SaveWrite(p)
    \/ \E p \in Savers : SaveClose(p)
    \/ LoadCookies

SpecRace == InitRace /\ [][NextRace]_vars

(* ------------------------------ claims --------------------------------- *)
Finished == pc = "idle" /\ outcome # << >>

Succeeded == Finished /\ outcome = Return("return", << >>)

ServiceFailures == {"ChallengeException", "UnauthorizedException", "Exception"}

Usable(jar) == CookieJarGetItem(jar, SessionCookieName).exc = "none"

(* C1 (as claimed): a call that ends in ChallengeRequired, Unauthorized or *)
(* TransientFailure leaves the cache file of its identity as it was when   *)
(* the call began.                                                         *)
C1_FailedCallKeepsCache ==
    (Finished /\ outcome[1].kind \in ServiceFailures)
      => FileOf(files, username) = cache_at_call

(* C2: with cache reuse enabled and a cache that yields a jar the          *)
(* validator accepts, authenticate returns successfully and has issued no  *)
(* GET and no POST.                                                        *)
C2_CacheHitNoRequests ==
    (/\ Finished
     /\ use_cookie_cache
     /\ io_error = << >>
     /\ cache_at_call # << >>
     /\ is_token_still_valid(PickleLoad(cache_at_call[1]), now))
      => (Succeeded /\ gets = 0 /\ posts = 0)

C2_Witness ==
    /\ Succeeded
    /\ use_cookie_cache
    /\ cache_at_call # << >>
    /\ is_token_still_valid(PickleLoad(cache_at_call[1]), now)
    /\ gets = 0

(* C3 (as claimed): whenever authenticate has returned successfully the    *)
(* client's jar holds a session-token cookie.                              *)
C3_SuccessPopulatesJar ==
    Succeeded => (\E i \in DOMAIN cookies : cookies[i].name = SessionCookieName)

WellFormedBody(body) ==
    /\ body.kind # "notjson"
    /\ Truthy(body) => "login_result" \in DOMAIN body.dict

(* C4 (as claimed): a 401 from the authentication endpoint ends the call   *)
(* in UnauthorizedException whatever the body, a body with a result field  *)
(* included. Stated for the bodies the protocol defines: JSON that is      *)
(* empty or carries the result field.                                      *)
C4_Original ==
    (Finished /\ response # << >> /\ response[1].status_code = 401
       /\ WellFormedBody(response[1].body))
      => outcome = Return("UnauthorizedException", << >>)

PassingBody(body) ==
    /\ body.kind # "notjson"
    /\ Truthy(body) => ("login_result" \in DOMAIN body.dict /\ body.dict["login_result"] = PASS)

(* C4 (amended): a 401 whose body is JSON null, an empty object, or an     *)
(* object whose login_result is PASS ends the call in Unauthorized.        *)
C4_UnauthorizedOn401 ==
    (Finished /\ response # << >> /\ response[1].status_code = 401
       /\ PassingBody(response[1].body))
      => outcome = Return("UnauthorizedException", << >>)

C4_Witness ==
    /\ Finished
    /\ response # << >>
    /\ response[1].status_code = 401
    /\ Truthy(response[1].body)
    /\ PassingBody(response[1].body)
    /\ outcome = Return("UnauthorizedException", << >>)

ChallengeBody(body) ==
    /\ body.kind = "dict"
    /\ "login_result" \in DOMAIN body.dict
    /\ body.dict["login_result"] # PASS

(* C5: a body whose login_result is v, v not PASS, ends the call in        *)
(* ChallengeException(v) for every status code, 200 and 401 included.      *)
C5_ChallengeBeforeStatus ==
    (Finished /\ response # << >> /\ ChallengeBody(response[1].body))
      => outcome = Return("ChallengeException", <<response[1].body.dict["login_result"]>>)

C5_Witness ==
    /\ Finished
    /\ response # << >>
    /\ ChallengeBody(response[1].body)
    /\ response[1].status_code = 401
    /\ outcome = Return("ChallengeException", <<"CHALLENGE">>)

(* C6: after a successful full authentication the cache file of the        *)
(* identity and the client's jar both hold the jar of the authentication   *)
(* response, not the anonymous jar.                                        *)
C6_SuccessPersistsResponseJar ==
    (Succeeded /\ posts = 1)
      => /\ response # << >>
         /\ response[1].status_code = 200
         /\ cookies = response[1].cookies
         /\ load_cookies_from_cache(files, username)
              = [found |-> TRUE, cookies |-> response[1].cookies]

C6_Witness ==
    /\ Succeeded
    /\ posts = 1
    /\ cache_at_call = << >>
    /\ anon # << >>
    /\ anon[1] # response[1].cookies
    /\ cookies = response[1].cookies
    /\ FileOf(files, username) = <<PickleDump(response[1].cookies)>>

(* C7 (as claimed): with cache reuse disabled every call issues the GET    *)
(* and then the POST, and never reads the cache. Stated for the calls in   *)
(* which the network answers every request sent.                           *)
C7_Original ==
    (Finished /\ ~use_cookie_cache /\ outcome[1].kind # "ConnectionError")
      => (gets = 1 /\ posts = 1 /\ ~cache_read)

(* C7 (amended): with cache reuse disabled every call issues the GET       *)
(* whatever the cache holds and never reads the cache; the POST follows    *)
(* the GET exactly when the GET returned a jar that yields a session-token *)
(* value.                                                                  *)
C7_RefreshForcesRoundTrip ==
    ~use_cookie_cache
      => /\ ~cache_read
         /\ (pc \in {"get", "post"} \/ Finished) => gets = 1
         /\ posts = 1 => gets = 1
         /\ Finished => (posts = 1 <=> (anon # << >> /\ Usable(anon[1])))

C7_Witness ==
    /\ Finished
    /\ ~use_cookie_cache
    /\ cache_at_call # << >>
    /\ is_token_still_valid(PickleLoad(cache_at_call[1]), now)
    /\ gets = 1
    /\ posts = 1

Validated == pc = "validator" /\ outcome # << >>

(* C8 (as claimed): a jar with a session-token cookie whose expiry is      *)
(* after now is valid; one whose expiry is at or before now is not.        *)
C8_Original ==
    Validated =>
      \A i \in DOMAIN cookies :
        (cookies[i].name = SessionCookieName /\ cookies[i].expires # << >>)
          => (outcome[1].arg[1] <=> cookies[i].expires[1] > now)

IsFirstToken(jar, i) ==
    /\ jar[i].name = SessionCookieName
    /\ jar[i].value # << >>
    /\ \A j \in 1..(i - 1) : ~(jar[j].name = SessionCookieName /\ jar[j].value # << >>)

(* C8 (amended): the first session-token cookie with a non-empty value     *)
(* decides: valid when its expiry is after now, invalid when its expiry is *)
(* at or before now.                                                       *)
C8_FirstTokenExpiryDecides ==
    Validated =>
      \A i \in DOMAIN cookies :
        (IsFirstToken(cookies, i) /\ cookies[i].expires # << >>)
          => (outcome[1].arg[1] <=> cookies[i].expires[1] > now)

C8_Witness ==
    /\ Validated
    /\ \E i \in DOMAIN cookies :
         /\ IsFirstToken(cookies, i)
         /\ cookies[i].expires = <<now>>
    /\ outcome[1].arg[1] = FALSE

(* C9: a jar without session-token cookie is invalid, and so is a jar      *)
(* whose session-token cookies carry no expiry.                            *)
C9_NoExpiryIsInvalid ==
    (Validated /\ \A i \in DOMAIN cookies :
                    cookies[i].name = SessionCookieName => cookies[i].expires = << >>)
      => outcome[1].arg[1] = FALSE

C9_Witness ==
    /\ Validated
    /\ \E i \in DOMAIN cookies :
         cookies[i].name = SessionCookieName /\ cookies[i].value # << >>
    /\ \A i \in DOMAIN cookies :
         cookies[i].name = SessionCookieName => cookies[i].expires = << >>
    /\ outcome[1].arg[1] = FALSE

(* C10: once a jar has been saved for an identity, loading the identity    *)
(* finds a jar equal to the last one saved for it.                         *)
C10_SaveLoadRoundTrip ==
    \A u \in Usernames :
      saved[u] # << >>
        => load_cookies_from_cache(files, u) = [found |-> TRUE, cookies |-> saved[u][1]]

C10_Witness ==
    /\ Succeeded
    /\ cache_read
    /\ gets = 0
    /\ saved[username] # << >>
    /\ \E u \in Usernames : u # username /\ saved[u] # << >> /\ saved[u] # saved[username]
    /\ \E i \in DOMAIN saved[username][1] : saved[username][1][i].expires # << >>

(* C11 (as claimed): a response without a non-pass result whose status is  *)
(* neither 200 nor 401 ends the call in a TransientFailure that carries    *)
(* the status code. Stated for the bodies that are empty JSON or carry a   *)
(* PASS result.                                                            *)
C11_TransientCarriesStatus ==
    (Finished /\ response # << >> /\ response[1].status_code \notin {200, 401}
       /\ PassingBody(response[1].body))
      => outcome = Return("Exception", <<response[1].status_code>>)

(* C12: a read error other than file-not-found ends authenticate with that *)
(* error and without any request; a missing file leads to the full         *)
(* authentication.                                                         *)
C12_OnlyNotFoundRecovered ==
    /\ io_error # << >>
         => (Finished /\ outcome = Return(io_error[1], << >>) /\ gets = 0 /\ posts = 0
               /\ FileOf(files, username) = cache_at_call)
    /\ (cache_read /\ io_error = << >> /\ cache_at_call = << >>
          /\ (pc \in {"get", "post"} \/ Finished))
         => gets = 1

C12_Witness ==
    /\ Finished
    /\ io_error = <<"PermissionError">>
    /\ outcome = Return("PermissionError", << >>)
    /\ cache_at_call # << >>
    /\ is_token_still_valid(PickleLoad(cache_at_call[1]), now)
    /\ gets = 0

(* C13: every cache file holds a pickled jar of the service and no field   *)
(* of it is the secret; the secret is only ever part of the form data of   *)
(* the POST.                                                               *)
C13_SecretNeverPersisted ==
    /\ \A f \in DOMAIN files :
         /\ \E jar \in ServiceJars : files[f] = PickleDump(jar)
         /\ \A i \in DOMAIN files[f] :
              files[f][i] # STOP =>
                files[f][i][1] \notin Passwords /\ files[f][i][4] \notin Passwords
    /\ \A u \in Usernames :
         saved[u] # << >> => FileOf(files, u) = <<PickleDump(saved[u][1])>>
    /\ payload # << >> => payload[1].session_password = password

C13_Witness ==
    /\ Succeeded
    /\ posts = 1
    /\ payload # << >>
    /\ payload[1].session_password \in Passwords
    /\ FileOf(files, username) = <<PickleDump(response[1].cookies)>>

(* C14 (as claimed): a call returns successfully only if the service       *)
(* accepted the credentials in that call (status 200, no non-pass result)  *)
(* or the jar found in the cache is the response jar of an accepted call   *)
(* (files of earlier runs count as such); so a call that follows a failed  *)
(* one on an empty cache does not succeed without a request.               *)
C14_SuccessOnlyIfAccepted ==
    Succeeded
      => \/ /\ posts = 1
            /\ response # << >>
            /\ response[1].status_code = 200
            /\ PassingBody(response[1].body)
         \/ /\ gets = 0
            /\ username \in accepted

FirstNamed(jar, i) ==
    /\ jar[i].name = SessionCookieName
    /\ \A j \in 1..(i - 1) : jar[j].name # SessionCookieName

Fresh(cookie, t) == cookie.expires # << >> /\ cookie.expires[1] > t

(* C15 (as claimed): the first cookie named JSESSIONID decides and nothing *)
(* after it changes the result: the jar cut after that cookie is as valid  *)
(* as the whole jar.                                                       *)
C15_Original ==
    Validated =>
      \A i \in DOMAIN cookies :
        FirstNamed(cookies, i)
          => outcome[1].arg[1] = is_token_still_valid(SubSeq(cookies, 1, i), now)

(* C15 (amended): the first cookie named JSESSIONID that has a non-empty   *)
(* value decides, by its expiry alone, and nothing after it changes the    *)
(* result.                                                                 *)
C15_FirstValuedTokenDecides ==
    Validated =>
      \A i \in DOMAIN cookies :
        IsFirstToken(cookies, i)
          => /\ outcome[1].arg[1] = Fresh(cookies[i], now)
             /\ outcome[1].arg[1] = is_token_still_valid(SubSeq(cookies, 1, i), now)

C15_Witness ==
    /\ Validated
    /\ Len(cookies) = 2
    /\ IsFirstToken(cookies, 1)
    /\ ~Fresh(cookies[1], now)
    /\ cookies[2].name = SessionCookieName
    /\ cookies[2].value # << >>
    /\ Fresh(cookies[2], now)
    /\ outcome[1].arg[1] = FALSE

(* C16: a call that does not return from the cache issues the GET, then    *)
(* at most one POST once the GET has answered, and repeats no request,     *)
(* whatever the outcome: at most two requests per call.                    *)
C16_RequestsOnceInOrder ==
    /\ gets <= 1
    /\ posts <= 1
    /\ gets + posts <= 2
    /\ posts = 1 => (gets = 1 /\ anon # << >>)
    /\ pc = "get" => (gets = 1 /\ posts = 0 /\ anon = << >>)
    /\ pc = "post" => (gets = 1 /\ posts = 1 /\ response = << >>)
    /\ (Finished /\ io_error = << >> /\ ~(Succeeded /\ posts = 0)) => gets = 1
    /\ (Finished /\ response # << >>) => (gets = 1 /\ posts = 1)

C16_Witness ==
    /\ Finished
    /\ outcome = Return("Exception", << >>)
    /\ response # << >>
    /\ response[1].status_code = 500
    /\ gets = 1
    /\ posts = 1

(* C17 (as claimed): in every state, when the csrf-token header is set the *)
(* client's jar holds a session-token cookie and the header is that        *)
(* cookie's value without the surrounding quotes.                          *)
C17_TokenMatchesJar ==
    csrf # << >>
      => \E i \in DOMAIN cookies :
           cookies[i].name = SessionCookieName /\ csrf[1] = Strip(cookies[i].value)

HasSessionToken(jar) == \E i \in DOMAIN jar : jar[i].name = SessionCookieName

(* C18: when the jar of the anonymous-session request has no session-token *)
(* cookie the call fails with no POST sent, no form data built from the    *)
(* secret, and the cache file of the identity as it was.                   *)
C18_NoTokenNoPost ==
    (anon # << >> /\ ~HasSessionToken(anon[1]))
      => /\ Finished
         /\ outcome = Return("KeyError", << >>)
         /\ posts = 0
         /\ payload = << >>
         /\ response = << >>
         /\ FileOf(files, username) = cache_at_call

C18_Witness ==
    /\ Finished
    /\ anon = <<<<LangCookie>>>>
    /\ outcome = Return("KeyError", << >>)
    /\ cache_at_call # << >>
    /\ FileOf(files, username) = cache_at_call
    /\ posts = 0

BothSaved == pc = "race" /\ \A p \in Savers : saver_pc[p] = "closed"

LastOf(order) == order[Len(order)]

LoadedJar(jar) == Return("return", <<[found |-> TRUE, cookies |-> jar]>>)

(* C19 (as claimed): under every interleaving of two processes that each   *)
(* save a jar for the same identity, once both saves have completed the    *)
(* cache file holds exactly the jar of the save that completed last, and a *)
(* later load returns that jar.                                            *)
C19_Original ==
    BothSaved
      => /\ files[RaceFile] = PickleDump(saver_jar[LastOf(close_order)])
         /\ loaded # << >> => loaded = LoadedJar(saver_jar[LastOf(close_order)])

(* C19 (amended): once both saves have completed, the cache file begins    *)
(* with the pickle of the jar whose write reached the file last, whichever *)
(* save was closed last and whatever of the other pickle is left behind    *)
(* it, and a later load returns that jar.                                  *)
C19_LastWriteWins ==
    BothSaved
      => LET last == PickleDump(saver_jar[LastOf(write_order)])
         IN  /\ Len(files[RaceFile]) >= Len(last)
             /\ SubSeq(files[RaceFile], 1, Len(last)) = last
             /\ loaded # << >> => loaded = LoadedJar(saver_jar[LastOf(write_order)])

C19_Witness ==
    /\ BothSaved
    /\ LastOf(write_order) # LastOf(close_order)
    /\ saver_jar["A"] # saver_jar["B"]
    /\ Len(files[RaceFile]) > Len(PickleDump(saver_jar[LastOf(write_order)]))
    /\ loaded = LoadedJar(saver_jar[LastOf(write_order)])

====
